---- MODULE Spec2Model ----
(***************************************************************************)
(* SonicWave music library: the MusicLibraryManager coordinator            *)
(* (src/music_manager.py), the containers it owns                          *)
(* (src/data_structures.py) and the Playlist wrapper (src/models.py).      *)
(*                                                                         *)
(* Python strings are sequences of code points, so that lower(), "<" and   *)
(* "in" are computed and not assumed.  Song objects live in a heap and are *)
(* held by reference: the queue, the history and the playlists keep        *)
(* pointing at an object after the library dropped it.                     *)
(***************************************************************************)
EXTENDS Integers, Sequences, FiniteSets, TLC

VARIABLES
    heap,        \* Song objects: ref -> [song_id, title, artist, genre, year, play_count, is_favorite]
    library,     \* MusicLibraryManager.library   (SinglyLinkedList of refs)
    genres,      \* MusicLibraryManager.genres    (GenreMultiList)
    bst,         \* MusicLibraryManager.bst       (BST)
    queue,       \* MusicLibraryManager.queue     (Queue, head first)
    history,     \* MusicLibraryManager.history   (Stack, top first)
    graph,       \* MusicLibraryManager.graph     (SongGraph.adj)
    playlists,   \* MusicLibraryManager.playlists (name -> DoublyLinkedList)
    song_index,  \* MusicLibraryManager._song_index (song_id -> ref)
    next_id,     \* MusicLibraryManager._next_id
    last,        \* the call that just returned: its name, its result, the branch it took
    nops         \* number of calls made since construction

vars == <<heap, library, genres, bst, queue, history, graph, playlists,
          song_index, next_id, last, nops>>

-----------------------------------------------------------------------------
(* Bounds of the exploration *)

MaxOps == 4          \* calls a client makes after construction
MaxNode == 3         \* node ids of the SongGraph driven on its own
MaxGraphOps == 6     \* calls made on that SongGraph
MaxData == 2          \* the values a DoublyLinkedList driven on its own holds: 1..MaxData
MaxDllLen == 4        \* the most entries that list may hold
MaxDllOps == 6        \* the most calls made on that list
MaxEdgeSongs == 3    \* songs the edge construction is run on

-----------------------------------------------------------------------------
(* Python values *)

NoRef == 0                  \* None where a Song (or a list node) is expected
NoneId == -1                \* None where an Optional[int] is expected
NoneName == "<None>"        \* None where an Optional[str] playlist name is expected

\* truthiness of an Optional[int] / Optional[str] argument ("if current_song_id")
TruthyId(i) == i # NoneId /\ i # 0
TruthyName(n) == n # NoneName /\ n # ""
TruthyStr(s) == s # <<>>

\* string literals, as code points
S_Unknown == <<85, 110, 107, 110, 111, 119, 110>>     \* "Unknown"
S_Rock == <<82, 111, 99, 107>>                         \* "Rock"
S_mp3 == <<46, 109, 112, 51>>                          \* ".mp3"
S_wav == <<46, 119, 97, 118>>                          \* ".wav"
DefaultYear == 2024
C_DOT == 46
C_UNDERSCORE == 95
C_SPACE == 32

\* str.lower() on ASCII
Lower(s) == [i \in 1..Len(s) |-> IF s[i] \in 65..90 THEN s[i] + 32 ELSE s[i]]

\* a < b on str: lexicographic by code point, a proper prefix is smaller
RECURSIVE StrLess(_, _)
StrLess(a, b) ==
    IF b = <<>> THEN FALSE
    ELSE IF a = <<>> THEN TRUE
    ELSE IF a[1] # b[1] THEN a[1] < b[1]
    ELSE StrLess(Tail(a), Tail(b))

\* q in s  (substring)
StrContains(q, s) ==
    \E i \in 0..(Len(s) - Len(q)) : SubSeq(s, i + 1, i + Len(q)) = q

\* s.endswith(suf)
EndsWith(s, suf) ==
    Len(s) >= Len(suf) /\ SubSeq(s, Len(s) - Len(suf) + 1, Len(s)) = suf

\* s.replace("_", " ")
ReplaceUnderscore(s) ==
    [i \in 1..Len(s) |-> IF s[i] = C_UNDERSCORE THEN C_SPACE ELSE s[i]]

\* os.path.splitext(fname)[0]: cut at the last dot, unless that dot is only
\* preceded by dots (a leading dot is part of the base name)
SplitExtBase(f) ==
    LET dots == {i \in 1..Len(f) : f[i] = C_DOT}
        lastDot == IF dots = {} THEN 0
                   ELSE CHOOSE i \in dots : \A j \in dots : j <= i
    IN IF lastDot = 0 \/ (\A j \in 1..(lastDot - 1) : f[j] = C_DOT)
       THEN f
       ELSE SubSeq(f, 1, lastDot - 1)

\* str(n) for an int
RECURSIVE DecStr(_)
DecStr(n) ==
    IF n < 0 THEN <<45>> \o DecStr(0 - n)
    ELSE IF n < 10 THEN <<48 + n>>
    ELSE DecStr(n \div 10) \o <<48 + (n % 10)>>

\* sorted(names) for a set of str
RECURSIVE SortedStrs(_)
SortedStrs(S) ==
    IF S = {} THEN <<>>
    ELSE LET m == CHOOSE x \in S : \A y \in S \ {x} : StrLess(x, y)
         IN <<m>> \o SortedStrs(S \ {m})

\* generic list helpers
SeqReverse(s) == [i \in 1..Len(s) |-> s[Len(s) + 1 - i]]
SeqRange(s) == {s[i] : i \in 1..Len(s)}
SeqRemoveAt(s, i) == SubSeq(s, 1, i - 1) \o SubSeq(s, i + 1, Len(s))
\* index of the first element satisfying P, 0 when there is none
FirstIndex(s, P(_)) ==
    IF \E i \in 1..Len(s) : P(s[i])
    THEN CHOOSE i \in 1..Len(s) : P(s[i]) /\ \A j \in 1..(i - 1) : ~P(s[j])
    ELSE 0
MapRestrict(f, S) == [x \in (DOMAIN f) \cap S |-> f[x]]
MapPut(f, k, v) == [x \in (DOMAIN f) \cup {k} |-> IF x = k THEN v ELSE f[x]]
MapDel(f, k) == [x \in (DOMAIN f) \ {k} |-> f[x]]
EmptyMap == <<>>

-----------------------------------------------------------------------------
(* SinglyLinkedList: the chain of SLLNodes from head, as the sequence of its data *)

SLL_new == <<>>
SLL_append(l, data) == Append(l, data)
\* remove(predicate): unlink the first node whose data satisfies the predicate
SLL_remove(l, P(_)) ==
    LET i == FirstIndex(l, P) IN IF i = 0 THEN l ELSE SeqRemoveAt(l, i)
SLL_to_list(l) == l

-----------------------------------------------------------------------------
(* Stack: the chain from _top, top first *)

Stack_new == <<>>
Stack_push(s, data) == <<data>> \o s
\* a pop() that answers with the oldest entry
Stack_top_bottom(s) == IF s = <<>> THEN NoRef ELSE s[Len(s)]
Stack_top(s) == IF s = <<>> THEN NoRef ELSE Head(s)     \* the value pop() returns
Stack_pop(s) == IF s = <<>> THEN s ELSE Tail(s)         \* the stack pop() leaves
Stack_to_list(s) == s

-----------------------------------------------------------------------------
(* Queue: the chain from _head to _tail, head first *)

Queue_new == <<>>
Queue_enqueue(q, data) == Append(q, data)
Queue_front(q) == IF q = <<>> THEN NoRef ELSE Head(q)   \* the value dequeue() returns
\* a dequeue() that drops the tail instead of the head
Queue_dequeue_last(q) == IF q = <<>> THEN q ELSE SubSeq(q, 1, Len(q) - 1)
Queue_dequeue(q) == IF q = <<>> THEN q ELSE Tail(q)     \* the queue dequeue() leaves
Queue_to_list(q) == q

-----------------------------------------------------------------------------
(* DoublyLinkedList: DLLNodes with their prev and next links, head and tail. *)
(* nodes maps a node address to [data, prev, next]; NoRef is None.           *)

DLL_new == [nodes |-> EmptyMap, head |-> NoRef, tail |-> NoRef]

\* the address DLLNode(data) is allocated at: the lowest free one
DLL_alloc(d) ==
    CHOOSE n \in 1..(Cardinality(DOMAIN d.nodes) + 1) :
        n \notin DOMAIN d.nodes /\ \A m \in 1..(n - 1) : m \in DOMAIN d.nodes

\* the nodes met by "node = head; while node: ...; node = node.next"
RECURSIVE DLL_walk(_, _, _)
DLL_walk(d, node, fuel) ==
    IF node = NoRef \/ fuel = 0 THEN <<>>
    ELSE <<node>> \o DLL_walk(d, d.nodes[node].next, fuel - 1)
DLL_chain(d) == DLL_walk(d, d.head, Cardinality(DOMAIN d.nodes))

\* the nodes met walking prev links from tail
RECURSIVE DLL_walk_back(_, _, _)
DLL_walk_back(d, node, fuel) ==
    IF node = NoRef \/ fuel = 0 THEN <<>>
    ELSE <<node>> \o DLL_walk_back(d, d.nodes[node].prev, fuel - 1)
DLL_chain_back(d) == DLL_walk_back(d, d.tail, Cardinality(DOMAIN d.nodes))

\* nodes no reference leads to any more are freed
RECURSIVE DLL_reach(_, _)
DLL_reach(d, S) ==
    LET T == (S \cup {d.nodes[n].next : n \in S} \cup {d.nodes[n].prev : n \in S})
             \ {NoRef}
    IN IF T = S THEN S ELSE DLL_reach(d, T)
DLL_collect(d) ==
    [d EXCEPT !.nodes = MapRestrict(d.nodes, DLL_reach(d, {d.head, d.tail} \ {NoRef}))]

DLL_append(d, data) ==
    LET node == DLL_alloc(d) IN
    IF d.head = NoRef
    THEN [nodes |-> MapPut(d.nodes, node, [data |-> data, prev |-> NoRef, next |-> NoRef]),
          head |-> node, tail |-> node]
    ELSE [nodes |-> MapPut([d.nodes EXCEPT ![d.tail].next = node], node,
                           [data |-> data, prev |-> d.tail, next |-> NoRef]),
          head |-> d.head, tail |-> node]

\* an unlink that repairs the next links and head only
DLL_unlink_oneway(d, node) ==
    LET nd == d.nodes[node]
        n1 == IF nd.prev # NoRef THEN [d.nodes EXCEPT ![nd.prev].next = nd.next]
                                 ELSE d.nodes
        h1 == IF nd.prev # NoRef THEN d.head ELSE nd.next
    IN DLL_collect([nodes |-> n1, head |-> h1, tail |-> d.tail])

\* the unlink of one node: both directions, head and tail
DLL_unlink(d, node) ==
    LET nd == d.nodes[node]
        n1 == IF nd.prev # NoRef THEN [d.nodes EXCEPT ![nd.prev].next = nd.next]
                                 ELSE d.nodes
        h1 == IF nd.prev # NoRef THEN d.head ELSE nd.next
        n2 == IF nd.next # NoRef THEN [n1 EXCEPT ![nd.next].prev = nd.prev] ELSE n1
        t1 == IF nd.next # NoRef THEN d.tail ELSE nd.prev
    IN DLL_collect([nodes |-> n2, head |-> h1, tail |-> t1])

\* remove(predicate): unlink the first node along the next links that matches
DLL_remove(d, P(_)) ==
    LET chain == DLL_chain(d)
        i == FirstIndex(chain, LAMBDA n : P(d.nodes[n].data))
    IN IF i = 0 THEN d ELSE DLL_unlink(d, chain[i])

DLL_to_list(d) == LET chain == DLL_chain(d) IN [i \in 1..Len(chain) |-> d.nodes[chain[i]].data]

-----------------------------------------------------------------------------
(* Playlist (models.py): a DoublyLinkedList of Song references.  h is the heap. *)

Playlist_new == DLL_new
Playlist_add(pl, song) == DLL_append(pl, song)
Playlist_remove_by_id(pl, h, song_id) == DLL_remove(pl, LAMBDA s : h[s].song_id = song_id)
Playlist_to_list(pl) == DLL_to_list(pl)

\* the first node whose song has the id, NoRef when there is none
Playlist_find(pl, h, song_id) ==
    LET chain == DLL_chain(pl)
        i == FirstIndex(chain, LAMBDA n : h[pl.nodes[n].data].song_id = song_id)
    IN IF i = 0 THEN NoRef ELSE chain[i]

Playlist_next_of(pl, h, song_id) ==
    LET node == Playlist_find(pl, h, song_id) IN
    IF node = NoRef THEN NoRef
    ELSE IF pl.nodes[node].next # NoRef THEN pl.nodes[pl.nodes[node].next].data
    ELSE NoRef

Playlist_prev_of(pl, h, song_id) ==
    LET node == Playlist_find(pl, h, song_id) IN
    IF node = NoRef THEN NoRef
    ELSE IF pl.nodes[node].prev # NoRef THEN pl.nodes[pl.nodes[node].prev].data
    ELSE NoRef

-----------------------------------------------------------------------------
(* GenreMultiList: the chain of GenreHeaders from head, each with the chain *)
(* of its songs (most recently added first).                                *)

Genre_new == <<>>

\* _find_genre: index of the first header matching case-insensitively, 0 for None
Genre_find_genre(g, genre) ==
    FirstIndex(g, LAMBDA hd : Lower(hd.genre) = Lower(genre))

\* an add_song that opens a new bucket every time
Genre_add_song_newbucket(g, genre, song) ==
    <<[genre |-> genre, songs |-> <<song>>]>> \o g

Genre_add_song(g, genre, song) ==
    LET i == Genre_find_genre(g, genre) IN
    IF i = 0 THEN <<[genre |-> genre, songs |-> <<song>>]>> \o g
    ELSE [g EXCEPT ![i].songs = <<song>> \o @]

Genre_remove_song(g, genre, P(_)) ==
    LET i == Genre_find_genre(g, genre) IN
    IF i = 0 THEN g
    ELSE LET k == FirstIndex(g[i].songs, P) IN
         IF k = 0 THEN g ELSE [g EXCEPT ![i].songs = SeqRemoveAt(@, k)]

\* sorted(out, key=str.lower): a stable sort
RECURSIVE StableInsert(_, _)
StableInsert(sorted, x) ==
    IF sorted = <<>> THEN <<x>>
    ELSE IF StrLess(Lower(x), Lower(Head(sorted))) THEN <<x>> \o sorted
    ELSE <<Head(sorted)>> \o StableInsert(Tail(sorted), x)
RECURSIVE SortedByLower(_)
SortedByLower(s) ==
    IF s = <<>> THEN <<>>
    ELSE StableInsert(SortedByLower(SubSeq(s, 1, Len(s) - 1)), s[Len(s)])

Genre_get_genres(g) == SortedByLower([i \in 1..Len(g) |-> g[i].genre])

Genre_get_songs(g, genre) ==
    LET i == Genre_find_genre(g, genre) IN IF i = 0 THEN <<>> ELSE g[i].songs

-----------------------------------------------------------------------------
(* BST keyed by lowercased title *)

BstNil == [nil |-> TRUE]
IsNil(t) == "nil" \in DOMAIN t
BST_new == BstNil

\* an insert that keeps the value already stored under an equal key
RECURSIVE BST_ins_keep(_, _, _)
BST_ins_keep(node, key, value) ==
    IF IsNil(node) THEN [key |-> key, value |-> value, left |-> BstNil, right |-> BstNil]
    ELSE IF StrLess(key, node.key)
         THEN [node EXCEPT !.left = BST_ins_keep(node.left, key, value)]
    ELSE IF StrLess(node.key, key)
         THEN [node EXCEPT !.right = BST_ins_keep(node.right, key, value)]
    ELSE node

RECURSIVE BST_ins(_, _, _)
BST_ins(node, key, value) ==
    IF IsNil(node) THEN [key |-> key, value |-> value, left |-> BstNil, right |-> BstNil]
    ELSE IF StrLess(key, node.key)
         THEN [node EXCEPT !.left = BST_ins(node.left, key, value)]
    ELSE IF StrLess(node.key, key)
         THEN [node EXCEPT !.right = BST_ins(node.right, key, value)]
    ELSE [node EXCEPT !.value = value]

BST_insert(t, key, value) == BST_ins(t, Lower(key), value)

RECURSIVE BST_find(_, _)
BST_find(node, k) ==
    IF IsNil(node) THEN NoRef
    ELSE IF StrLess(k, node.key) THEN BST_find(node.left, k)
    ELSE IF StrLess(node.key, k) THEN BST_find(node.right, k)
    ELSE node.value

\* a search that does not lowercase the query
BST_search_exactcase(t, key) == BST_find(t, key)
BST_search(t, key) == BST_find(t, Lower(key))

RECURSIVE BST_inorder(_)
BST_inorder(n) ==
    IF IsNil(n) THEN <<>>
    ELSE BST_inorder(n.left) \o <<n.value>> \o BST_inorder(n.right)

RECURSIVE BST_traverse(_, _)
BST_traverse(n, q) ==
    IF IsNil(n) THEN <<>>
    ELSE (IF StrContains(q, n.key) THEN <<n.value>> ELSE <<>>)
         \o BST_traverse(n.left, q) \o BST_traverse(n.right, q)

\* a partial_match that does not normalise the query
BST_partial_match_nolower(t, query) == BST_traverse(t, query)
BST_partial_match(t, query) == BST_traverse(t, Lower(query))

\* the keys of the tree, in order
RECURSIVE BST_keys(_)
BST_keys(n) ==
    IF IsNil(n) THEN <<>>
    ELSE BST_keys(n.left) \o <<n.key>> \o BST_keys(n.right)

-----------------------------------------------------------------------------
(* SongGraph: adj, song id -> list of neighbour ids *)

Graph_new == EmptyMap

Graph_add_song(adj, song_id) ==
    IF song_id \in DOMAIN adj THEN adj ELSE MapPut(adj, song_id, <<>>)

\* an add_edge that appends without looking for the id in the list
Graph_add_edge_append(adj, a, b) ==
    IF a = b THEN adj
    ELSE LET g1 == Graph_add_song(adj, a)
             g2 == Graph_add_song(g1, b)
             g3 == [g2 EXCEPT ![a] = Append(@, b)]
         IN [g3 EXCEPT ![b] = Append(@, a)]

Graph_add_edge(adj, a, b) ==
    IF a = b THEN adj
    ELSE LET g1 == Graph_add_song(adj, a)
             g2 == Graph_add_song(g1, b)
             g3 == IF b \in SeqRange(g2[a]) THEN g2 ELSE [g2 EXCEPT ![a] = Append(@, b)]
             g4 == IF a \in SeqRange(g3[b]) THEN g3 ELSE [g3 EXCEPT ![b] = Append(@, a)]
         IN g4

Graph_neighbors(adj, song_id) ==
    IF song_id \in DOMAIN adj THEN adj[song_id] ELSE <<>>

\* list.remove(x): drops the first occurrence
ListRemove(s, x) ==
    LET i == FirstIndex(s, LAMBDA y : y = x) IN IF i = 0 THEN s ELSE SeqRemoveAt(s, i)

\* "for n in list(adj[song_id]): if song_id in adj.get(n, []): adj[n].remove(song_id)"
RECURSIVE Graph_strip(_, _, _)
Graph_strip(adj, ns, song_id) ==
    IF ns = <<>> THEN adj
    ELSE LET n == Head(ns)
             a1 == IF n \in DOMAIN adj /\ song_id \in SeqRange(adj[n])
                   THEN [adj EXCEPT ![n] = ListRemove(@, song_id)]
                   ELSE adj
         IN Graph_strip(a1, Tail(ns), song_id)

\* a remove_song that drops the key and leaves the neighbours' lists alone
Graph_remove_song_nostrip(adj, song_id) ==
    IF song_id \in DOMAIN adj THEN MapDel(adj, song_id) ELSE adj

\* a remove_song that clears the neighbours' lists and keeps the key
Graph_remove_song_keepkey(adj, song_id) ==
    IF song_id \in DOMAIN adj
    THEN [Graph_strip(adj, adj[song_id], song_id) EXCEPT ![song_id] = <<>>]
    ELSE adj

Graph_remove_song(adj, song_id) ==
    IF song_id \in DOMAIN adj
    THEN MapDel(Graph_strip(adj, adj[song_id], song_id), song_id)
    ELSE adj

-----------------------------------------------------------------------------
(* Song records and the heap they live in *)

\* Song(...) as rescan builds it; album, duration_seconds and file_path are
\* never read by the manager and are left out
NewSong(song_id, title) ==
    [song_id |-> song_id, title |-> title, artist |-> S_Unknown, genre |-> S_Unknown,
     year |-> DefaultYear, play_count |-> 0, is_favorite |-> FALSE]

\* the address a new Song object gets: the lowest free one
AllocRef(h) ==
    CHOOSE n \in 1..(Cardinality(DOMAIN h) + 1) :
        n \notin DOMAIN h /\ \A m \in 1..(n - 1) : m \in DOMAIN h

\* python "x or y" on str
StrOr(x, y) == IF TruthyStr(x) THEN x ELSE y

PlaylistRefs(pls) == UNION {SeqRange(DLL_to_list(pls[n])) \cup
                            {pls[n].nodes[k].data : k \in DOMAIN pls[n].nodes} : n \in DOMAIN pls}
GenreRefs(g) == UNION {SeqRange(g[i].songs) : i \in 1..Len(g)}

\* the Song objects something still refers to
Roots(lib, idx, g, t, q, hist, pls, ret) ==
    (SeqRange(lib) \cup {idx[i] : i \in DOMAIN idx} \cup GenreRefs(g)
        \cup SeqRange(BST_inorder(t)) \cup SeqRange(q) \cup SeqRange(hist)
        \cup PlaylistRefs(pls) \cup {ret}) \ {NoRef}

-----------------------------------------------------------------------------
(* MusicLibraryManager: the structures rescan rebuilds, as one record *)

Mgr(h, lib, g, t, gr, idx, nid) ==
    [heap |-> h, library |-> lib, genres |-> g, bst |-> t, graph |-> gr,
     song_index |-> idx, next_id |-> nid]

\* an _index_and_insert that does not register the song in the id index
IndexAndInsert_noindex(m, ref) ==
    LET song == m.heap[ref] IN
    [m EXCEPT !.library = SLL_append(@, ref),
              !.genres = Genre_add_song(@, StrOr(song.genre, S_Unknown), ref),
              !.bst = BST_insert(@, StrOr(song.title, DecStr(song.song_id)), ref),
              !.graph = Graph_add_song(@, song.song_id)]

\* _index_and_insert(song)
IndexAndInsert(m, ref) ==
    LET song == m.heap[ref] IN
    [m EXCEPT !.song_index = MapPut(@, song.song_id, ref),
              !.library = SLL_append(@, ref),
              !.genres = Genre_add_song(@, StrOr(song.genre, S_Unknown), ref),
              !.bst = BST_insert(@, StrOr(song.title, DecStr(song.song_id)), ref),
              !.graph = Graph_add_song(@, song.song_id)]

IsAudio(fname) == EndsWith(Lower(fname), S_mp3) \/ EndsWith(Lower(fname), S_wav)

\* the loop over sorted(os.listdir(music_dir))
RECURSIVE RescanLoad(_, _)
RescanLoad(m, fnames) ==
    IF fnames = <<>> THEN m
    ELSE IF ~IsAudio(Head(fnames)) THEN RescanLoad(m, Tail(fnames))
    ELSE LET ref == AllocRef(m.heap)
             song == NewSong(m.next_id, ReplaceUnderscore(SplitExtBase(Head(fnames))))
             m1 == IndexAndInsert([m EXCEPT !.heap = MapPut(@, ref, song)], ref)
         IN RescanLoad([m1 EXCEPT !.next_id = @ + 1], Tail(fnames))

\* a score that gives nothing for an equal genre
Score_nogenre(a, b) ==
    (IF TruthyStr(a.artist) /\ TruthyStr(b.artist) /\ a.artist = b.artist THEN 3 ELSE 0)
    + (IF (IF a.year >= b.year THEN a.year - b.year ELSE b.year - a.year) <= 2 THEN 1 ELSE 0)

\* the similarity score of two songs
Score(a, b) ==
    (IF TruthyStr(a.artist) /\ TruthyStr(b.artist) /\ a.artist = b.artist THEN 3 ELSE 0)
    + (IF TruthyStr(a.genre) /\ TruthyStr(b.genre) /\ a.genre = b.genre THEN 2 ELSE 0)
    + (IF (IF a.year >= b.year THEN a.year - b.year ELSE b.year - a.year) <= 2 THEN 1 ELSE 0)

MinScore == 2

\* the double loop "for i ...: for j in range(i + 1, ...)"
RECURSIVE BuildEdges(_, _, _, _, _)
BuildEdges(adj, h, all, i, j) ==
    IF i > Len(all) THEN adj
    ELSE IF j > Len(all) THEN BuildEdges(adj, h, all, i + 1, i + 2)
    ELSE LET a == h[all[i]]
             b == h[all[j]]
             adj1 == IF Score(a, b) >= MinScore
                     THEN Graph_add_edge(adj, a.song_id, b.song_id) ELSE adj
         IN BuildEdges(adj1, h, all, i, j + 1)

\* rescan() on a directory listing dir (a set of file names); h0 is the heap
\* of the Song objects that survive the reset
RescanResult(h0, dir) ==
    LET m0 == Mgr(h0, SLL_new, Genre_new, BST_new, Graph_new, EmptyMap, 1)
        m1 == RescanLoad(m0, SortedStrs(dir))
    IN [m1 EXCEPT !.graph = BuildEdges(@, m1.heap, SLL_to_list(m1.library), 1, 2)]

\* the BST rebuilt from the master list ("self.bst = BST(); for s in ...")
RECURSIVE RebuildBST(_, _, _)
RebuildBST(t, h, all) ==
    IF all = <<>> THEN t
    ELSE RebuildBST(BST_insert(t, StrOr(h[Head(all)].title, DecStr(h[Head(all)].song_id)),
                               Head(all)),
                    h, Tail(all))

-----------------------------------------------------------------------------
(* Inputs *)

\* the files the music directory may hold
F_a_mp3 == <<97>> \o S_mp3                       \* "a.mp3"
F_a_b_WAV == <<97, 95, 98, 46, 87, 65, 86>>      \* "a_b.WAV"
F_n_txt == <<110, 46, 116, 120, 116>>            \* "n.txt"
FileNames == {F_a_mp3, F_a_b_WAV, F_n_txt}
Listings == {dir \cup {F_n_txt} : dir \in SUBSET (FileNames \ {F_n_txt})}

MaxSongs == Cardinality({f \in FileNames : IsAudio(f)})
IdArgs == 1..MaxSongs
CurrentIds == IdArgs \cup {NoneId}
PlaylistNames == {"Road Trip", "Gym"}
CurrentNames == PlaylistNames \cup {NoneName}

S_A == <<65>>                                          \* "A"
S_unknown == Lower(S_Unknown)                          \* "unknown"

\* update_song(song_id, **fields): the keyword arguments with a value that is
\* not None, as (name, value) pairs.  setattr accepts every attribute of Song
\* but song_id, which Python binds to the first parameter
UpdateArgs ==
    { << <<"title", S_A>> >>, << <<"title", <<>> >> >>,
      << <<"genre", S_Rock>> >>, << <<"genre", S_unknown>> >>,
      << <<"play_count", 0>> >> }

-----------------------------------------------------------------------------
(* The operations of MusicLibraryManager *)

\* one more call of the client, of the MaxOps it makes
Counted == nops < MaxOps /\ nops' = nops + 1

Ret(op, ret, via) ==
    [op |-> op, ret |-> ret, via |-> via]

\* the heap after a call: Song objects nothing refers to any more are freed
\* (the caller holds the returned song until its next call)
Collect(h) ==
    MapRestrict(h, Roots(library', song_index', genres', bst', queue', history',
                         playlists', last'.ret))

\* a rescan that empties the queue as well
Rescan_clearqueue(dir) ==
    /\ Counted
    /\ last' = Ret("rescan", NoRef, "")
    /\ queue' = Queue_new
    /\ UNCHANGED <<history, playlists>>
    /\ LET h0 == MapRestrict(heap, Roots(SLL_new, EmptyMap, Genre_new, BST_new,
                                         Queue_new, history, playlists, NoRef))
           m == RescanResult(h0, dir)
       IN /\ library' = m.library
          /\ genres' = m.genres
          /\ bst' = m.bst
          /\ graph' = m.graph
          /\ song_index' = m.song_index
          /\ next_id' = m.next_id
          /\ heap' = Collect(m.heap)

\* rescan(), the directory holding the files dir
Rescan(dir) ==
    /\ Counted
    /\ last' = Ret("rescan", NoRef, "")
    /\ UNCHANGED <<queue, history, playlists>>
    /\ LET h0 == MapRestrict(heap, Roots(SLL_new, EmptyMap, Genre_new, BST_new,
                                         queue, history, playlists, NoRef))
           m == RescanResult(h0, dir)
       IN /\ library' = m.library
          /\ genres' = m.genres
          /\ bst' = m.bst
          /\ graph' = m.graph
          /\ song_index' = m.song_index
          /\ next_id' = m.next_id
          /\ heap' = Collect(m.heap)

\* "for k, v in fields.items(): ... if hasattr(song, k): setattr(song, k, v)"
RECURSIVE ApplyFields(_, _)
ApplyFields(song, fields) ==
    IF fields = <<>> THEN song
    ELSE LET k == Head(fields)[1]
             v == Head(fields)[2]
         IN ApplyFields(IF k \in DOMAIN song THEN [song EXCEPT ![k] = v] ELSE song,
                        Tail(fields))

\* an update that adds the song to its new bucket and leaves the old one alone
UpdateGenres_addonly(g, h1, ref, old_genre, song_id) ==
    IF old_genre # h1[ref].genre THEN Genre_add_song(g, h1[ref].genre, ref) ELSE g

\* the genre index after update_song: re-bucketed when the genre changed
UpdateGenres(g, h1, ref, old_genre, song_id) ==
    IF old_genre # h1[ref].genre
    THEN Genre_add_song(Genre_remove_song(g, old_genre, LAMBDA s : h1[s].song_id = song_id),
                        h1[ref].genre, ref)
    ELSE g

\* the title tree after update_song: rebuilt when the title changed
UpdateBST(t, h1, ref, old_title, lib) ==
    IF old_title # h1[ref].title THEN RebuildBST(BST_new, h1, SLL_to_list(lib)) ELSE t

UpdateSong(song_id, fields) ==
    /\ Counted
    /\ last' = Ret("update_song", NoRef, IF song_id \in DOMAIN song_index THEN "known" ELSE "unknown")
    /\ UNCHANGED <<library, queue, history, graph, playlists, song_index, next_id>>
    /\ IF song_id \notin DOMAIN song_index
       THEN /\ UNCHANGED <<genres, bst>>
            /\ heap' = Collect(heap)
       ELSE LET ref == song_index[song_id]
                h1 == [heap EXCEPT ![ref] = ApplyFields(@, fields)]
            IN /\ genres' = UpdateGenres(genres, h1, ref, heap[ref].genre, song_id)
               /\ bst' = UpdateBST(bst, h1, ref, heap[ref].title, library)
               /\ heap' = Collect(h1)

\* "new_q = Queue(); for s in self.queue.to_list(): if s.song_id != song_id: new_q.enqueue(s)"
RECURSIVE QueueCleanup(_, _, _, _)
QueueCleanup(new_q, list, h, song_id) ==
    IF list = <<>> THEN new_q
    ELSE QueueCleanup(IF h[Head(list)].song_id # song_id
                      THEN Queue_enqueue(new_q, Head(list)) ELSE new_q,
                      Tail(list), h, song_id)

\* a history cleanup that drops every song up to the first kept one
RECURSIVE HistoryCleanup_restart(_, _, _, _)
HistoryCleanup_restart(new_hist, list, h, song_id) ==
    IF list = <<>> THEN new_hist
    ELSE HistoryCleanup_restart(IF h[Head(list)].song_id # song_id
                                THEN Stack_push(Stack_new, Head(list)) ELSE new_hist,
                                Tail(list), h, song_id)

\* "new_hist = Stack(); for s in reversed(self.history.to_list()): ... new_hist.push(s)"
RECURSIVE HistoryCleanup(_, _, _, _)
HistoryCleanup(new_hist, list, h, song_id) ==
    IF list = <<>> THEN new_hist
    ELSE HistoryCleanup(IF h[Head(list)].song_id # song_id
                        THEN Stack_push(new_hist, Head(list)) ELSE new_hist,
                        Tail(list), h, song_id)

\* "for pl in self.playlists.values(): pl.remove_by_id(song_id)"
PlaylistsCleanup(pls, h, song_id) ==
    [n \in DOMAIN pls |-> Playlist_remove_by_id(pls[n], h, song_id)]

DeleteSong(song_id) ==
    /\ Counted
    /\ last' = Ret("delete_song", NoRef, IF song_id \in DOMAIN song_index THEN "known" ELSE "unknown")
    /\ UNCHANGED <<next_id>>
    /\ IF song_id \notin DOMAIN song_index
       THEN /\ UNCHANGED <<library, genres, bst, queue, history, graph, playlists,
                           song_index>>
            /\ heap' = Collect(heap)
       ELSE LET song == song_index[song_id] IN
            /\ library' = SLL_remove(library, LAMBDA s : heap[s].song_id = song_id)
            /\ genres' = Genre_remove_song(genres, heap[song].genre,
                                           LAMBDA s : heap[s].song_id = song_id)
            /\ song_index' = MapDel(song_index, song_id)
            /\ bst' = RebuildBST(BST_new, heap, SLL_to_list(library'))
            /\ queue' = QueueCleanup(Queue_new, Queue_to_list(queue), heap, song_id)
            /\ history' = HistoryCleanup(Stack_new, SeqReverse(Stack_to_list(history)),
                                         heap, song_id)
            /\ playlists' = PlaylistsCleanup(playlists, heap, song_id)
            /\ graph' = Graph_remove_song(graph, song_id)
            /\ heap' = Collect(heap)

ToggleFavorite(song_id) ==
    /\ Counted
    /\ last' = Ret("toggle_favorite", NoRef, IF song_id \in DOMAIN song_index THEN "known" ELSE "unknown")
    /\ UNCHANGED <<library, genres, bst, queue, history, graph, playlists, song_index,
                   next_id>>
    /\ heap' = Collect(IF song_id \notin DOMAIN song_index THEN heap
                       ELSE [heap EXCEPT ![song_index[song_id]].is_favorite = ~@])

\* the playlists after create_playlist(name)
WithPlaylist(pls, name) ==
    IF name \notin DOMAIN pls THEN MapPut(pls, name, Playlist_new) ELSE pls

AddSongToPlaylist(name, song_id) ==
    /\ Counted
    /\ LET pls1 == WithPlaylist(playlists, name) IN
       playlists' = (IF song_id \in DOMAIN song_index
                     THEN [pls1 EXCEPT ![name] = Playlist_add(@, song_index[song_id])]
                     ELSE pls1)
    /\ last' = Ret("add_song_to_playlist", NoRef, IF song_id \in DOMAIN song_index THEN "known" ELSE "unknown")
    /\ UNCHANGED <<library, genres, bst, queue, history, graph, song_index, next_id>>
    /\ heap' = Collect(heap)

RemoveSongFromPlaylist(name, song_id) ==
    /\ Counted
    /\ playlists' = (IF name \in DOMAIN playlists
                     THEN [playlists EXCEPT ![name] = Playlist_remove_by_id(@, heap, song_id)]
                     ELSE playlists)
    /\ last' = Ret("remove_song_from_playlist", NoRef, "")
    /\ UNCHANGED <<library, genres, bst, queue, history, graph, song_index, next_id>>
    /\ heap' = Collect(heap)

\* an enqueue_song without the "if song" guard: an unknown id enqueues None
EnqueueSong_noguard(song_id) ==
    /\ Counted
    /\ queue' = Queue_enqueue(queue, IF song_id \in DOMAIN song_index
                                     THEN song_index[song_id] ELSE NoRef)
    /\ last' = Ret("enqueue_song", NoRef, IF song_id \in DOMAIN song_index THEN "known" ELSE "unknown")
    /\ UNCHANGED <<library, genres, bst, history, graph, playlists, song_index, next_id>>
    /\ heap' = Collect(heap)

EnqueueSong(song_id) ==
    /\ Counted
    /\ queue' = (IF song_id \in DOMAIN song_index
                 THEN Queue_enqueue(queue, song_index[song_id]) ELSE queue)
    /\ last' = Ret("enqueue_song", NoRef, IF song_id \in DOMAIN song_index THEN "known" ELSE "unknown")
    /\ UNCHANGED <<library, genres, bst, history, graph, playlists, song_index, next_id>>
    /\ heap' = Collect(heap)

DequeueSong ==
    /\ Counted
    /\ queue' = Queue_dequeue(queue)
    /\ last' = Ret("dequeue_song", Queue_front(queue), "")
    /\ UNCHANGED <<library, genres, bst, history, graph, playlists, song_index, next_id>>
    /\ heap' = Collect(heap)

\* the Song objects a caller passes to record_play: one it just looked up by id,
\* or the one the previous call returned (main.py: api_play, api_next, api_prev)
Playable == ({song_index[i] : i \in DOMAIN song_index} \cup {last.ret}) \ {NoRef}

RecordPlay(song) ==
    /\ Counted
    /\ history' = Stack_push(history, song)
    /\ last' = Ret("record_play", NoRef, "")
    /\ UNCHANGED <<library, genres, bst, queue, graph, playlists, song_index, next_id>>
    /\ heap' = Collect([heap EXCEPT ![song].play_count = @ + 1])

\* a get_next_similar_song that never looks at the neighbours
SimilarChoices_library(song_id) == SeqRange(SLL_to_list(library))

\* the songs get_next_similar_song may return: a neighbour that resolves (any
\* of them, the list being shuffled), else any song of the library
SimilarChoices(song_id) ==
    LET ns == SeqRange(Graph_neighbors(graph, song_id)) \cap DOMAIN song_index IN
    IF ns # {} THEN {song_index[n] : n \in ns} ELSE SeqRange(SLL_to_list(library))

\* a get_next_song that asks the queue before the playlist
NextStep_queue_first(current_song_id, current_playlist_name) ==
    IF Queue_front(queue) # NoRef THEN "queue"
    ELSE IF /\ TruthyName(current_playlist_name)
            /\ current_playlist_name \in DOMAIN playlists
            /\ TruthyId(current_song_id)
            /\ Playlist_next_of(playlists[current_playlist_name], heap, current_song_id) # NoRef
    THEN "playlist"
    ELSE IF TruthyId(current_song_id) /\ SimilarChoices(current_song_id) # {} THEN "similar"
    ELSE IF library # <<>> THEN "random"
    ELSE "none"

\* a get_next_song without the random fallback
NextStep_norandom(current_song_id, current_playlist_name) ==
    IF /\ TruthyName(current_playlist_name)
       /\ current_playlist_name \in DOMAIN playlists
       /\ TruthyId(current_song_id)
       /\ Playlist_next_of(playlists[current_playlist_name], heap, current_song_id) # NoRef
    THEN "playlist"
    ELSE IF Queue_front(queue) # NoRef THEN "queue"
    ELSE IF TruthyId(current_song_id) /\ SimilarChoices(current_song_id) # {} THEN "similar"
    ELSE "none"

\* the step of get_next_song that answers
NextStep(current_song_id, current_playlist_name) ==
    IF /\ TruthyName(current_playlist_name)
       /\ current_playlist_name \in DOMAIN playlists
       /\ TruthyId(current_song_id)
       /\ Playlist_next_of(playlists[current_playlist_name], heap, current_song_id) # NoRef
    THEN "playlist"
    ELSE IF Queue_front(queue) # NoRef THEN "queue"
    ELSE IF TruthyId(current_song_id) /\ SimilarChoices(current_song_id) # {} THEN "similar"
    ELSE IF library # <<>> THEN "random"
    ELSE "none"

GetNextSong(current_song_id, current_playlist_name) ==
    LET via == NextStep(current_song_id, current_playlist_name) IN
    /\ Counted
    /\ UNCHANGED <<library, genres, bst, history, graph, playlists, song_index, next_id>>
    /\ queue' = (IF via = "playlist" THEN queue ELSE Queue_dequeue(queue))
    /\ \E ret \in (CASE via = "playlist" ->
                          {Playlist_next_of(playlists[current_playlist_name], heap,
                                            current_song_id)}
                     [] via = "queue" -> {Queue_front(queue)}
                     [] via = "similar" -> SimilarChoices(current_song_id)
                     [] via = "random" -> SeqRange(SLL_to_list(library))
                     [] OTHER -> {NoRef}) :
          last' = Ret("get_next_song", ret, via)
    /\ heap' = Collect(heap)

\* the step of get_previous_song that answers
\* a get_previous_song that never asks the playlist
PrevStep_history(current_song_id, current_playlist_name) == "history"
PrevStep(current_song_id, current_playlist_name) ==
    IF /\ TruthyName(current_playlist_name)
       /\ current_playlist_name \in DOMAIN playlists
       /\ TruthyId(current_song_id)
       /\ Playlist_prev_of(playlists[current_playlist_name], heap, current_song_id) # NoRef
    THEN "playlist"
    ELSE "history"

GetPreviousSong(current_song_id, current_playlist_name) ==
    LET via == PrevStep(current_song_id, current_playlist_name)
        top == Stack_top(history)
        again == top # NoRef /\ TruthyId(current_song_id)
                 /\ heap[top].song_id = current_song_id
        h1 == Stack_pop(history)
    IN
    /\ Counted
    /\ UNCHANGED <<library, genres, bst, queue, graph, playlists, song_index, next_id>>
    /\ history' = (IF via = "playlist" THEN history
                   ELSE IF again THEN Stack_pop(h1) ELSE h1)
    /\ last' = Ret("get_previous_song",
                   IF via = "playlist"
                   THEN Playlist_prev_of(playlists[current_playlist_name], heap,
                                         current_song_id)
                   ELSE IF again THEN Stack_top(h1) ELSE top,
                   via)
    /\ heap' = Collect(heap)

\* search_by_title(query): the exact match alone when there is one, else the
\* partial matches
SearchByTitle(query) ==
    LET exact == BST_search(bst, query) IN
    IF exact # NoRef THEN <<exact>> ELSE BST_partial_match(bst, query)

-----------------------------------------------------------------------------
(* The program *)

\* MusicLibraryManager.__init__: empty structures, then rescan()
Init ==
    \E dir \in Listings :
        LET m == RescanResult(EmptyMap, dir) IN
        /\ heap = m.heap
        /\ library = m.library
        /\ genres = m.genres
        /\ bst = m.bst
        /\ graph = m.graph
        /\ song_index = m.song_index
        /\ next_id = m.next_id
        /\ queue = Queue_new
        /\ history = Stack_new
        /\ playlists = EmptyMap
        /\ last = Ret("init", NoRef, "")
        /\ nops = 0

\* a client calls the manager, one call after the other
Next ==
    \/ \E dir \in Listings : Rescan(dir)
    \/ \E song_id \in IdArgs, fields \in UpdateArgs : UpdateSong(song_id, fields)
    \/ \E song_id \in IdArgs : DeleteSong(song_id)
    \/ \E song_id \in IdArgs : ToggleFavorite(song_id)
    \/ \E name \in PlaylistNames, song_id \in IdArgs : AddSongToPlaylist(name, song_id)
    \/ \E name \in PlaylistNames, song_id \in IdArgs : RemoveSongFromPlaylist(name, song_id)
    \/ \E song_id \in IdArgs : EnqueueSong(song_id)
    \/ DequeueSong
    \/ \E song \in Playable : RecordPlay(song)
    \/ \E id \in CurrentIds, name \in CurrentNames : GetNextSong(id, name)
    \/ \E id \in CurrentIds, name \in CurrentNames : GetPreviousSong(id, name)

Spec == Init /\ [][Next]_vars

-----------------------------------------------------------------------------
(* A SongGraph driven on its own: add_song, add_edge and remove_song in any order *)

NodeIds == 1..MaxNode

InitGraph ==
    /\ graph = Graph_new
    /\ heap = EmptyMap
    /\ library = SLL_new
    /\ genres = Genre_new
    /\ bst = BST_new
    /\ queue = Queue_new
    /\ history = Stack_new
    /\ playlists = EmptyMap
    /\ song_index = EmptyMap
    /\ next_id = 1
    /\ nops = 0
    /\ last = Ret("SongGraph", NoRef, "")

GraphFrame ==
    /\ nops < MaxGraphOps
    /\ nops' = nops + 1
    /\ UNCHANGED <<heap, library, genres, bst, queue, history, playlists, song_index,
                   next_id>>

GraphAddSong(a) ==
    /\ graph' = Graph_add_song(graph, a)
    /\ last' = Ret("add_song", NoRef, "")
    /\ GraphFrame

GraphAddEdge(a, b) ==
    /\ graph' = Graph_add_edge(graph, a, b)
    /\ last' = Ret("add_edge", NoRef,
                   IF a = b THEN "self"
                   ELSE IF b \in SeqRange(Graph_neighbors(graph, a)) THEN "again"
                   ELSE "pair")
    /\ GraphFrame

GraphRemoveSong(a) ==
    /\ graph' = Graph_remove_song(graph, a)
    /\ last' = Ret("remove_song", NoRef,
                   IF Graph_neighbors(graph, a) # <<>> THEN "linked" ELSE "isolated")
    /\ GraphFrame

NextGraph ==
    \/ \E a \in NodeIds : GraphAddSong(a)
    \/ \E a \in NodeIds, b \in NodeIds : GraphAddEdge(a, b)
    \/ \E a \in NodeIds : GraphRemoveSong(a)

SpecGraph == InitGraph /\ [][NextGraph]_vars

-----------------------------------------------------------------------------
(* A DoublyLinkedList driven on its own: append and remove(predicate) in any *)
(* order.  The list is playlists["dll"]; a predicate is "data in S".         *)

DllData == 1..MaxData
TheDll == playlists["dll"]

InitDll ==
    /\ playlists = [n \in {"dll"} |-> DLL_new]
    /\ heap = EmptyMap
    /\ library = SLL_new
    /\ genres = Genre_new
    /\ bst = BST_new
    /\ queue = Queue_new
    /\ history = Stack_new
    /\ graph = Graph_new
    /\ song_index = EmptyMap
    /\ next_id = 1
    /\ nops = 0
    /\ last = Ret("DoublyLinkedList", NoRef, "")

DllFrame ==
    /\ nops < MaxDllOps
    /\ nops' = nops + 1
    /\ UNCHANGED <<heap, library, genres, bst, queue, history, graph, song_index,
                   next_id>>

DllAppend(data) ==
    /\ Len(DLL_to_list(TheDll)) < MaxDllLen
    /\ playlists' = [playlists EXCEPT !["dll"] = DLL_append(@, data)]
    /\ last' = Ret("append", NoRef, "")
    /\ DllFrame

DllRemove(S) ==
    LET matches == {i \in 1..Len(DLL_to_list(TheDll)) : DLL_to_list(TheDll)[i] \in S} IN
    /\ playlists' = [playlists EXCEPT !["dll"] = DLL_remove(@, LAMBDA x : x \in S)]
    /\ last' = Ret("remove", NoRef,
                   IF matches = {} THEN "False"
                   ELSE IF Cardinality(matches) = 1 THEN "the only match"
                   ELSE "the first of several")
    /\ DllFrame

NextDll ==
    \/ \E data \in DllData : DllAppend(data)
    \/ \E S \in SUBSET DllData : DllRemove(S)

SpecDll == InitDll /\ [][NextDll]_vars

-----------------------------------------------------------------------------
(* The edge construction of rescan run on songs with any artist, genre and  *)
(* year: the songs are indexed as rescan indexes them, then the loops run.   *)

S_X == <<88>>                       \* "X"
S_Y == <<89>>                       \* "Y"
S_Pop == <<80, 111, 112>>           \* "Pop"
S_Jazz == <<74, 97, 122, 122>>      \* "Jazz"
EdgeArtists == {S_X, S_Y, <<>>}
EdgeGenres == {S_Rock, S_Pop, S_Jazz, <<>>}
EdgeYears == {2020, 2022, 2023}

\* Song(song_id, ..., artist, ..., genre, year, ...)
TaggedSong(song_id, artist, genre, year) ==
    [NewSong(song_id, S_A) EXCEPT !.artist = artist, !.genre = genre, !.year = year]

\* "self._index_and_insert(song); self._next_id += 1" for each song
RECURSIVE LoadTagged(_, _)
LoadTagged(m, songs) ==
    IF songs = <<>> THEN m
    ELSE LET ref == AllocRef(m.heap)
             m1 == IndexAndInsert([m EXCEPT !.heap = MapPut(@, ref, Head(songs))], ref)
         IN LoadTagged([m1 EXCEPT !.next_id = @ + 1], Tail(songs))

\* song 1 is A(X, Rock, 2020), the others are any
InitEdges ==
    \E tags \in [2..MaxEdgeSongs -> EdgeArtists \X EdgeGenres \X EdgeYears] :
        LET songs == [i \in 1..MaxEdgeSongs |->
                        IF i = 1 THEN TaggedSong(1, S_X, S_Rock, 2020)
                        ELSE TaggedSong(i, tags[i][1], tags[i][2], tags[i][3])]
            m == LoadTagged(Mgr(EmptyMap, SLL_new, Genre_new, BST_new, Graph_new,
                                EmptyMap, 1), songs)
        IN /\ heap = m.heap
           /\ library = m.library
           /\ genres = m.genres
           /\ bst = m.bst
           /\ graph = m.graph
           /\ song_index = m.song_index
           /\ next_id = m.next_id
           /\ queue = Queue_new
           /\ history = Stack_new
           /\ playlists = EmptyMap
           /\ last = Ret("load", NoRef, "")
           /\ nops = 0

\* "all_songs = self.get_all_songs(); for i ...: for j ...: ... add_edge"
EdgeConstruction ==
    /\ last.op = "load"
    /\ graph' = BuildEdges(graph, heap, SLL_to_list(library), 1, 2)
    /\ last' = Ret("rescan", NoRef, "edges")
    /\ UNCHANGED <<heap, library, genres, bst, queue, history, playlists, song_index,
                   next_id, nops>>

NextEdges == EdgeConstruction

SpecEdges == InitEdges /\ [][NextEdges]_vars

-----------------------------------------------------------------------------
(* What the properties below speak about *)

LibraryRefs == SeqRange(SLL_to_list(library))
LibraryIds == {heap[r].song_id : r \in LibraryRefs}
IdsOf(h, refs) == {h[r].song_id : r \in refs \ {NoRef}}
GraphMentions(adj) == DOMAIN adj \cup UNION {SeqRange(adj[k]) : k \in DOMAIN adj}

\* every place delete_song is to clear of the id: master list, id index, tree,
\* the bucket of genre, queue, history, every playlist and the graph
AbsentEverywhere(song_id, genre, h, lib, idx, t, g, q, hist, pls, adj) ==
    /\ song_id \notin IdsOf(h, SeqRange(SLL_to_list(lib)))
    /\ song_id \notin DOMAIN idx
    /\ song_id \notin IdsOf(h, SeqRange(BST_inorder(t)))
    /\ song_id \notin IdsOf(h, SeqRange(Genre_get_songs(g, genre)))
    /\ song_id \notin IdsOf(h, SeqRange(Queue_to_list(q)))
    /\ song_id \notin IdsOf(h, SeqRange(Stack_to_list(hist)))
    /\ \A n \in DOMAIN pls : song_id \notin IdsOf(h, SeqRange(Playlist_to_list(pls[n])))
    /\ song_id \notin GraphMentions(adj)

\* how often x occurs in the sequence s
Count(s, x) == Cardinality({k \in 1..Len(s) : s[k] = x})

\* the key _index_and_insert and the rebuilds file a song under
SongKey(h, r) == Lower(StrOr(h[r].title, DecStr(h[r].song_id)))

\* the (key, value) pairs of the tree's nodes, in key order
RECURSIVE BST_items(_)
BST_items(n) ==
    IF IsNil(n) THEN <<>>
    ELSE BST_items(n.left) \o << <<n.key, n.value>> >> \o BST_items(n.right)

\* the song after the first one in the list that carries the id, NoRef when
\* no song carries it or the first that does is the last of the list
SuccessorIn(list, h, song_id) ==
    LET i == FirstIndex(list, LAMBDA r : h[r].song_id = song_id)
    IN IF i = 0 \/ i = Len(list) THEN NoRef ELSE list[i + 1]

\* the song the playlist step of get_next_song is to answer with: the arguments
\* are given (a name that is not None nor empty, an id that is not None nor 0),
\* the playlist exists, holds the id, and the entry has a successor
PlaylistSuccessor(id, name) ==
    IF TruthyId(id) /\ TruthyName(name) /\ name \in DOMAIN playlists
    THEN SuccessorIn(Playlist_to_list(playlists[name]), heap, id)
    ELSE NoRef

-----------------------------------------------------------------------------
(* C1 *)

\* C1: for every song s in the library, after delete_song(s.song_id) the id is
\* in none of the master list, the id index, the tree, the bucket of s's former
\* genre, the queue, the history, any playlist, the graph's keys or any
\* neighbour list of the graph.
C1_DeleteRemovesEverywhere ==
    [][\A s \in LibraryRefs :
         LET song_id == heap[s].song_id
             genre == heap[s].genre
         IN DeleteSong(song_id)
            => AbsentEverywhere(song_id, genre, heap', library', song_index', bst',
                                genres', queue', history', playlists', graph')]_vars

-----------------------------------------------------------------------------
(* C2 *)

\* C2: every song a playlist, the queue or the history holds has an id that
\* is a key of the id index.
C2_NoOrphans ==
    IdsOf(heap, PlaylistRefs(playlists) \cup SeqRange(Queue_to_list(queue))
                \cup SeqRange(Stack_to_list(history)))
        \subseteq DOMAIN song_index

-----------------------------------------------------------------------------
(* C3 *)

\* C3: the ids in the master list are exactly the keys of the id index, each
\* id occurs once in the list, each key maps to the song carrying that id, and
\* the list is as long as the index has keys.
C3_ListMatchesIndex ==
    /\ LibraryIds = DOMAIN song_index
    /\ \A i, j \in 1..Len(SLL_to_list(library)) :
          i # j => heap[library[i]].song_id # heap[library[j]].song_id
    /\ \A i \in DOMAIN song_index : heap[song_index[i]].song_id = i
    /\ Len(SLL_to_list(library)) = Cardinality(DOMAIN song_index)

\* a delete_song of a known id has returned and left a song in the library
C3_Witness ==
    /\ last.op = "delete_song"
    /\ last.via = "known"
    /\ Len(SLL_to_list(library)) = 1
    /\ DOMAIN song_index = LibraryIds

-----------------------------------------------------------------------------
(* C4 *)

\* C4 as stated: the tree has as many nodes as the library has songs and every
\* library song is the value of some node.
C4_OneEntryPerSong ==
    /\ Len(BST_inorder(bst)) = Len(SLL_to_list(library))
    /\ LibraryRefs \subseteq SeqRange(BST_inorder(bst))

\* C4: the tree has exactly one node per distinct key of the library songs, a
\* song's key being its lowercased title (its id in decimal when the title is
\* empty), and the node's value is the last song in master-list order with
\* that key.
C4_OneEntryPerKey ==
    LET items == BST_items(bst)
        lib == SLL_to_list(library)
    IN /\ \A i, j \in 1..Len(items) : i # j => items[i][1] # items[j][1]
       /\ {items[i][1] : i \in 1..Len(items)} = {SongKey(heap, r) : r \in LibraryRefs}
       /\ \A i \in 1..Len(items) :
            \E k \in 1..Len(lib) :
                /\ items[i][2] = lib[k]
                /\ SongKey(heap, lib[k]) = items[i][1]
                /\ \A m \in (k + 1)..Len(lib) : SongKey(heap, lib[m]) # items[i][1]

\* an update_song has left two library songs with one key, and one node
C4_Witness ==
    /\ last.op = "update_song"
    /\ Len(SLL_to_list(library)) = 2
    /\ Len(BST_keys(bst)) = 1

-----------------------------------------------------------------------------
(* C5 *)

\* C5: every library song appears exactly once in the genre index, in the
\* bucket whose name matches its current genre case-insensitively, and in no
\* other bucket; and no bucket holds a song that is not in the library.
C5_GenreIndexExact ==
    /\ \A r \in LibraryRefs :
         \E i \in 1..Len(genres) :
            /\ Lower(genres[i].genre) = Lower(heap[r].genre)
            /\ Count(genres[i].songs, r) = 1
            /\ \A j \in 1..Len(genres) : j # i => Count(genres[j].songs, r) = 0
    /\ GenreRefs(genres) \subseteq LibraryRefs

\* an update_song has changed a song's genre: the song now sits in the Rock
\* bucket and the bucket it left is still there
C5_Witness ==
    /\ last.op = "update_song"
    /\ last.via = "known"
    /\ Len(genres) = 2
    /\ \E r \in LibraryRefs : heap[r].genre = S_Rock

-----------------------------------------------------------------------------
(* C6 *)

\* C6: the keys of the similarity graph's adjacency map are exactly the ids of
\* the library songs.
C6_GraphKeysAreLibraryIds == DOMAIN graph = LibraryIds

\* a delete_song of a known id has returned and left a node in the graph
C6_Witness ==
    /\ last.op = "delete_song"
    /\ last.via = "known"
    /\ DOMAIN graph # {}

-----------------------------------------------------------------------------
(* C7 *)

\* C7: after any sequence of add_song, add_edge and remove_song the graph is a
\* simple undirected graph: b is in adj[a] iff a is in adj[b], no id is in its
\* own list, no list holds an id twice, and every id in a list is a key.
C7_SimpleUndirected ==
    /\ \A a \in DOMAIN graph : \A b \in SeqRange(graph[a]) :
          b \in DOMAIN graph /\ a \in SeqRange(graph[b])
    /\ \A a \in DOMAIN graph : a \notin SeqRange(graph[a])
    /\ \A a \in DOMAIN graph : \A b \in SeqRange(graph[a]) : Count(graph[a], b) = 1

\* remove_song has removed a node that had neighbours, and edges remain
C7_Witness ==
    /\ last.op = "remove_song"
    /\ last.via = "linked"
    /\ \E a \in DOMAIN graph : graph[a] # <<>>

-----------------------------------------------------------------------------
(* C8 *)

\* C8: ids are handed out in increasing order from 1 and never reused: the ids
\* a rescan hands out (1 .. next_id' - 1) are none of those handed out before
\* it (1 .. next_id - 1).
C8_IdsNeverReused ==
    [][\A dir \in Listings :
         Rescan(dir) => (1..(next_id' - 1)) \cap (1..(next_id - 1)) = {}]_vars

-----------------------------------------------------------------------------
(* C9 *)

-----------------------------------------------------------------------------
(* C10 *)

\* C10: whenever the playlist step yields no song and the queue is not empty,
\* get_next_song returns the queue's head and leaves the old queue minus that
\* head; and enqueue_song of a known id puts that song at the tail: so songs
\* leave in the order they were enqueued, duplicates included.
C10_QueueStepFifo ==
    [][/\ \A id \in CurrentIds, name \in CurrentNames :
            (PlaylistSuccessor(id, name) = NoRef /\ queue # <<>> /\ GetNextSong(id, name))
            => /\ last'.ret = Head(queue)
               /\ queue' = Tail(queue)
       /\ \A song_id \in DOMAIN song_index :
            EnqueueSong(song_id) => queue' = Append(queue, song_index[song_id])]_vars

\* get_next_song has answered from a queue that held the same song twice: the
\* song returned is still the head of what is left
C10_Witness ==
    /\ last.op = "get_next_song"
    /\ last.via = "queue"
    /\ queue # <<>>
    /\ Head(queue) = last.ret

-----------------------------------------------------------------------------
(* C11 *)

\* the neighbours of the id in the graph that are keys of the id index
Resolving(song_id) ==
    {n \in SeqRange(Graph_neighbors(graph, song_id)) : n \in DOMAIN song_index}

\* C11: when the playlist step yields no song, the queue is empty and a
\* current id is given, get_next_song returns a song whose id is a graph
\* neighbour of the current id if some neighbour is a key of the id index, and
\* a pick from the whole library (nothing when it is empty) only if none is.
C11_SimilarityStep ==
    [][\A id \in CurrentIds, name \in CurrentNames :
         (/\ PlaylistSuccessor(id, name) = NoRef
          /\ queue = <<>>
          /\ TruthyId(id)
          /\ GetNextSong(id, name))
         => IF Resolving(id) # {}
            THEN /\ last'.ret # NoRef
                 /\ heap[last'.ret].song_id \in SeqRange(Graph_neighbors(graph, id))
            ELSE IF library = <<>> THEN last'.ret = NoRef
            ELSE last'.ret \in LibraryRefs]_vars

\* get_next_song has answered with a neighbour of the current id while the
\* library holds a song that is no neighbour of it (the current song itself)
C11_Witness ==
    /\ last.op = "get_next_song"
    /\ last.via = "similar"
    /\ Len(SLL_to_list(library)) = 2
    /\ \E a \in DOMAIN graph : graph[a] = <<heap[last.ret].song_id>>

-----------------------------------------------------------------------------
(* C12 *)

\* C12: with a library that is not empty get_next_song returns a song,
\* whatever its arguments; with an empty queue, an empty history and no
\* current id it returns a song of the library, and nothing when the library
\* is empty.
C12_NothingOnlyIfEmpty ==
    [][\A id \in CurrentIds, name \in CurrentNames :
         GetNextSong(id, name)
         => /\ library # <<>> => last'.ret # NoRef
            /\ (queue = <<>> /\ history = <<>> /\ id = NoneId)
               => IF library # <<>> THEN last'.ret \in LibraryRefs
                  ELSE last'.ret = NoRef]_vars

\* get_next_song has fallen through to the random pick and returned a song
C12_Witness ==
    /\ last.op = "get_next_song"
    /\ last.via = "random"
    /\ queue = <<>>
    /\ history = <<>>
    /\ last.ret \in LibraryRefs

-----------------------------------------------------------------------------
(* C13 *)

\* the song before the first one in the list that carries the id, NoRef when
\* no song carries it or the first that does is the first of the list
PredecessorIn(list, h, song_id) ==
    LET i == FirstIndex(list, LAMBDA r : h[r].song_id = song_id)
    IN IF i <= 1 THEN NoRef ELSE list[i - 1]

PlaylistPredecessor(id, name) ==
    IF TruthyId(id) /\ TruthyName(name) /\ name \in DOMAIN playlists
    THEN PredecessorIn(Playlist_to_list(playlists[name]), heap, id)
    ELSE NoRef

\* C13: when the playlist step yields no song, get_previous_song pops the
\* history top; if that entry carries the given current id it pops once more
\* and returns the second entry (nothing when there is none), the history
\* losing both; otherwise it returns the first entry, the history losing that
\* one; with an empty history it returns nothing and the history stays empty.
C13_HistoryStep ==
    [][\A id \in CurrentIds, name \in CurrentNames :
         (PlaylistPredecessor(id, name) = NoRef /\ GetPreviousSong(id, name))
         => LET hist == Stack_to_list(history) IN
            IF hist = <<>> THEN last'.ret = NoRef /\ history' = <<>>
            ELSE IF TruthyId(id) /\ heap[hist[1]].song_id = id
            THEN /\ last'.ret = (IF Len(hist) >= 2 THEN hist[2] ELSE NoRef)
                 /\ Stack_to_list(history') = SubSeq(hist, 3, Len(hist))
            ELSE /\ last'.ret = hist[1]
                 /\ Stack_to_list(history') = Tail(hist)]_vars

\* two songs were played once each and the third call, get_previous_song, has
\* emptied the history and returned one of them: it popped the current song
\* and returned the one played before it
C13_Witness ==
    /\ last.op = "get_previous_song"
    /\ last.via = "history"
    /\ nops = 3
    /\ history = <<>>
    /\ last.ret \in LibraryRefs
    /\ heap[last.ret].play_count = 1
    /\ \E r \in LibraryRefs \ {last.ret} : heap[r].play_count = 1

-----------------------------------------------------------------------------
(* C14 *)

\* the genre values update_song is called with
GenreValues == {f[1][2] : f \in {g \in UpdateArgs : g[1][1] = "genre"}}

\* C14 as stated: after update_song(s.song_id, genre=G) the song is in
\* get_songs_by_genre(G) and not in get_songs_by_genre(old_genre), and
\* get_all_genres() is as before if a bucket for G existed.
C14_GenreUpdate ==
    [][\A s \in LibraryRefs, G \in GenreValues :
         UpdateSong(heap[s].song_id, << <<"genre", G>> >>)
         => /\ s \in SeqRange(Genre_get_songs(genres', G))
            /\ s \notin SeqRange(Genre_get_songs(genres', heap[s].genre))
            /\ Genre_find_genre(genres, G) # 0
               => Genre_get_genres(genres') = Genre_get_genres(genres)]_vars

\* C14: after update_song(s.song_id, genre=G) the song is in
\* get_songs_by_genre(G); it is not in get_songs_by_genre(old_genre) unless G
\* and old_genre are equal up to case, which name the same bucket; and
\* get_all_genres() is as before if a bucket for G existed.
C14_GenreUpdateMoves ==
    [][\A s \in LibraryRefs, G \in GenreValues :
         UpdateSong(heap[s].song_id, << <<"genre", G>> >>)
         => /\ s \in SeqRange(Genre_get_songs(genres', G))
            /\ Lower(G) # Lower(heap[s].genre)
               => s \notin SeqRange(Genre_get_songs(genres', heap[s].genre))
            /\ Genre_find_genre(genres, G) # 0
               => Genre_get_genres(genres') = Genre_get_genres(genres)]_vars

\* two songs have been moved to Rock, the second into the bucket the first
\* opened, and the bucket they left is empty
C14_Witness ==
    /\ last.op = "update_song"
    /\ last.via = "known"
    /\ Len(Genre_get_songs(genres, S_Rock)) = 2
    /\ Genre_get_songs(genres, S_Unknown) = <<>>
    /\ \A r \in LibraryRefs : heap[r].genre = S_Rock

-----------------------------------------------------------------------------
(* C15 *)

\* C15 as stated, for the songs that have a title: for a library song whose
\* title is not empty and is the title of no other library song,
\* search_by_title(title) returns exactly that song.
C15_TitleRoundTrip ==
    \A r \in LibraryRefs :
        (/\ heap[r].title # <<>>
         /\ \A q \in LibraryRefs \ {r} : heap[q].title # heap[r].title)
        => SearchByTitle(heap[r].title) = <<r>>

\* C15: for a library song whose title is not empty and whose key (the
\* lowercased title; the id in decimal for a song with an empty title) no other
\* library song has, search_by_title(title) returns exactly that song.
C15_KeyRoundTrip ==
    \A r \in LibraryRefs :
        (/\ heap[r].title # <<>>
         /\ \A q \in LibraryRefs \ {r} : SongKey(heap, q) # SongKey(heap, r))
        => SearchByTitle(heap[r].title) = <<r>>

\* a title update has given a song the title "A", filed under "a", which is
\* part of the other song's key and the key of no other song; the search for
\* "A" returns that song alone
C15_Witness ==
    /\ last.op = "update_song"
    /\ Len(SLL_to_list(library)) = 2
    /\ Len(BST_keys(bst)) = 2
    /\ \E r \in LibraryRefs : heap[r].title = S_A /\ SearchByTitle(S_A) = <<r>>

-----------------------------------------------------------------------------
(* C16 *)

\* the score as the policy words it: 3 for equal artists that are not empty,
\* plus 2 for equal genres that are not empty, plus 1 for years at most 2 apart
PolicyScore(a, b) ==
    (IF a.artist = b.artist /\ a.artist # <<>> THEN 3 ELSE 0)
    + (IF a.genre = b.genre /\ a.genre # <<>> THEN 2 ELSE 0)
    + (IF a.year - b.year \in -2..2 THEN 1 ELSE 0)

\* C16: once the edge construction has run, for every pair of distinct library
\* songs a, b the edge a-b is in the graph (each id in the other's list) iff
\* their score is at least 2.
C16_EdgesFollowScore ==
    last.via = "edges"
    => \A r \in LibraryRefs : \A q \in LibraryRefs \ {r} :
          LET a == heap[r]
              b == heap[q]
          IN /\ b.song_id \in SeqRange(Graph_neighbors(graph, a.song_id))
                <=> PolicyScore(a, b) >= 2
             /\ a.song_id \in SeqRange(Graph_neighbors(graph, b.song_id))
                <=> PolicyScore(a, b) >= 2

\* the policy has run on A(X, Rock, 2020), B(X, Pop, 2022), C(Y, Jazz, 2023):
\* neighbors(A) is [B]
C16_Witness ==
    /\ last.via = "edges"
    /\ \E rb \in LibraryRefs, rc \in LibraryRefs :
          /\ heap[rb].artist = S_X /\ heap[rb].genre = S_Pop /\ heap[rb].year = 2022
          /\ heap[rc].artist = S_Y /\ heap[rc].genre = S_Jazz /\ heap[rc].year = 2023
          /\ Graph_neighbors(graph, 1) = <<heap[rb].song_id>>
          /\ Graph_neighbors(graph, heap[rc].song_id) = <<>>

-----------------------------------------------------------------------------
(* C17 *)

\* C17: for ids a # b, add_edge(a, b) applied to the graph add_edge(a, b) has
\* just produced leaves it as it is (same keys, same lists in the same order);
\* add_edge(a, a) leaves the graph as it is and creates no node for a.
C17_AddEdgeIdempotent ==
    [][\A a \in NodeIds, b \in NodeIds :
         GraphAddEdge(a, b)
         => /\ a # b => Graph_add_edge(graph', a, b) = graph'
            /\ a # b => Graph_add_edge(graph', b, a) = graph'
            /\ a = b => graph' = graph]_vars

\* add_edge has been called for an edge the graph already had
C17_Witness ==
    /\ last.op = "add_edge"
    /\ last.via = "again"
    /\ \E a \in DOMAIN graph : graph[a] # <<>>

-----------------------------------------------------------------------------
(* C18 *)

\* C18: for an id that is no key of the id index, update_song, delete_song and
\* enqueue_song leave the master list, the index, the genre index, the tree,
\* the graph, the queue, the history, the playlists, the id counter and every
\* song as they are, and get_similar_songs(id) is empty before and after.
C18_UnknownIdsNoOps ==
    [][/\ \A id \in IdArgs \ DOMAIN song_index :
            (\/ \E fields \in UpdateArgs : UpdateSong(id, fields)
             \/ DeleteSong(id)
             \/ EnqueueSong(id))
            => /\ UNCHANGED <<library, song_index, genres, bst, graph, queue, history,
                              playlists, next_id>>
               /\ \A r \in DOMAIN heap' : heap'[r] = heap[r]
       /\ \A id \in IdArgs \ DOMAIN song_index : Graph_neighbors(graph, id) = <<>>
       /\ \A id \in IdArgs \ DOMAIN song_index' : Graph_neighbors(graph', id) = <<>>]_vars

\* delete_song of an unknown id has returned, with a song in the library and
\* one in the queue
C18_Witness ==
    /\ last.op = "delete_song"
    /\ last.via = "unknown"
    /\ Len(SLL_to_list(library)) = 1
    /\ queue # <<>>

-----------------------------------------------------------------------------
(* C19 *)

\* the songs the queue, the history and the playlists hold
KeptRefs == SeqRange(Queue_to_list(queue)) \cup SeqRange(Stack_to_list(history))
                \cup PlaylistRefs(playlists)

\* C19: rescan leaves the playlists, the queue and the history as they were
\* (same names, same songs in the same order, each song unchanged); the master
\* list, the id index, the genre index, the tree and the graph hold new song
\* objects only, one per audio file, with the ids 1, 2, ... in list order.
C19_RescanFrame ==
    [][\A dir \in Listings :
         Rescan(dir)
         => LET n == Cardinality({f \in dir : IsAudio(f)})
                lib == SLL_to_list(library')
            IN /\ queue' = queue
               /\ history' = history
               /\ playlists' = playlists
               /\ \A r \in KeptRefs : r \in DOMAIN heap' /\ heap'[r] = heap[r]
               /\ Len(lib) = n
               /\ \A i \in 1..n : /\ heap'[lib[i]].song_id = i
                                  /\ song_index'[i] = lib[i]
                                  /\ lib[i] \notin KeptRefs
               /\ DOMAIN song_index' = 1..n
               /\ next_id' = n + 1
               /\ GenreRefs(genres') = SeqRange(lib)
               /\ SeqRange(BST_inorder(bst')) = SeqRange(lib)
               /\ DOMAIN graph' = 1..n]_vars

\* rescan has returned and the queue still holds a song the library has
\* not: the queue's song is of the time before the rescan
C19_Witness ==
    /\ last.op = "rescan"
    /\ queue # <<>>
    /\ Head(queue) \notin LibraryRefs
    /\ library # <<>>

-----------------------------------------------------------------------------
(* C20 *)

\* C20: a song's play count is 0 after the rescan that made it; record_play
\* raises it by exactly 1 and pushes the song on top of the history; update_song
\* with any field, delete_song of another song, toggle_favorite, the playlist
\* and queue calls, get_next_song and get_previous_song leave the play count of
\* every song that stays in the library as it is.
C20_PlayCountOnlyByRecordPlay ==
    [][/\ last'.op = "rescan"
          => \A r \in SeqRange(SLL_to_list(library')) : heap'[r].play_count = 0
       /\ \A song \in Playable :
            RecordPlay(song)
            => /\ heap'[song].play_count = heap[song].play_count + 1
               /\ Stack_to_list(history') = <<song>> \o Stack_to_list(history)
       /\ last'.op \notin {"rescan", "record_play"}
          => \A r \in LibraryRefs \cap SeqRange(SLL_to_list(library')) :
                heap'[r].play_count = heap[r].play_count]_vars

-----------------------------------------------------------------------------
(* C21 *)

\* the entries of the list whose song does not carry the id, in the list's order
WithoutId(list, h, song_id) == SelectSeq(list, LAMBDA r : h[r].song_id # song_id)

\* C21: delete_song(id) for a known id leaves the queue equal to the old queue,
\* head to tail, without the entries that carry the id, and the history equal
\* to the old history, most recent first, without the entries that carry the
\* id; the other entries keep their relative order.
C21_DeleteFiltersInOrder ==
    [][\A id \in DOMAIN song_index :
         DeleteSong(id)
         => /\ Queue_to_list(queue') = WithoutId(Queue_to_list(queue), heap, id)
            /\ Stack_to_list(history') = WithoutId(Stack_to_list(history), heap, id)]_vars

\* delete_song of a known id has returned and the history still holds two
\* different songs: their order is what the filter had to keep
C21_Witness ==
    /\ last.op = "delete_song"
    /\ last.via = "known"
    /\ Len(Stack_to_list(history)) = 2
    /\ history[1] # history[2]

-----------------------------------------------------------------------------
(* C22 *)

S_a == <<97>>                                          \* "a"
S_b == <<98>>                                          \* "b"
S_1 == <<49>>                                          \* "1"
S_a_b == <<97, 32, 98>>                                \* "a b"
\* the queries search_by_title is called with
Queries == {<<>>, S_a, S_A, S_b, S_1, S_a_b}

\* C22 as stated: if some library song's lowercased title equals the lowercased
\* query, search_by_title returns exactly one song, with that title; otherwise it
\* returns exactly the library songs whose lowercased title contains the
\* lowercased query, each once; a song whose title does not contain the query
\* is never returned.
C22_SearchByTitlePolicy ==
    \A q \in Queries :
        LET res == SearchByTitle(q)
            exact == {r \in LibraryRefs : Lower(heap[r].title) = Lower(q)}
            part == {r \in LibraryRefs : StrContains(Lower(q), Lower(heap[r].title))}
        IN /\ IF exact # {}
              THEN Len(res) = 1 /\ res[1] \in exact
              ELSE SeqRange(res) = part /\ Len(res) = Cardinality(part)
           /\ \A i \in 1..Len(res) : StrContains(Lower(q), Lower(heap[res[i]].title))

\* the songs the tree holds: of the library songs with one key, the last in
\* master-list order
KeyHolders ==
    LET lib == SLL_to_list(library) IN
    {lib[i] : i \in {k \in 1..Len(lib) :
                       \A j \in (k + 1)..Len(lib) :
                          SongKey(heap, lib[j]) # SongKey(heap, lib[k])}}

\* C22: with a song's key being its lowercased title (its id in decimal when
\* the title is empty) and the key's holder the last library song with that
\* key: if some key equals the lowercased query, search_by_title returns exactly
\* that key's holder; otherwise it returns exactly the holders whose key
\* contains the lowercased query, each once; a song whose key does not contain
\* the query is never returned.
C22_SearchByKeyPolicy ==
    \A q \in Queries :
        LET res == SearchByTitle(q)
            exact == {r \in KeyHolders : SongKey(heap, r) = Lower(q)}
            part == {r \in KeyHolders : StrContains(Lower(q), SongKey(heap, r))}
        IN /\ IF exact # {}
              THEN Len(res) = 1 /\ res[1] \in exact
              ELSE SeqRange(res) = part /\ Len(res) = Cardinality(part)
           /\ \A i \in 1..Len(res) : StrContains(Lower(q), SongKey(heap, res[i]))

\* two library songs share the key "a" after a title update, the search for
\* "b" misses and the search for "" returns the one holder of the key
C22_Witness ==
    /\ last.op = "update_song"
    /\ Len(SLL_to_list(library)) = 2
    /\ Cardinality(KeyHolders) = 1
    /\ SearchByTitle(S_b) = <<>>
    /\ Len(SearchByTitle(<<>>)) = 1
    /\ Len(SearchByTitle(S_A)) = 1

-----------------------------------------------------------------------------
(* C23 *)

\* head.prev and tail.next are None, n.next.prev is n, tail ends the walk from
\* head, head and tail are None together and exactly for the empty list, and
\* the walk along prev from tail is the reverse of to_list()
DllLinksAgree(d) ==
    LET chain == DLL_chain(d)
        back == DLL_chain_back(d)
    IN /\ (d.head = NoRef) <=> (d.tail = NoRef)
       /\ (d.head = NoRef) <=> (DLL_to_list(d) = <<>>)
       /\ d.head # NoRef => d.nodes[d.head].prev = NoRef
       /\ d.tail # NoRef => d.nodes[d.tail].next = NoRef
       /\ \A n \in DOMAIN d.nodes :
            d.nodes[n].next # NoRef => d.nodes[d.nodes[n].next].prev = n
       /\ chain # <<>> => chain[Len(chain)] = d.tail
       /\ back = SeqReverse(chain)
       /\ [i \in 1..Len(back) |-> d.nodes[back[i]].data] = SeqReverse(DLL_to_list(d))

\* C23: after every append and every remove(predicate) the forward and the
\* backward links agree (DllLinksAgree); append adds the value at the end; remove
\* takes out the first entry that satisfies the predicate and no other, and
\* leaves the list alone when none does.
C23_BothDirections ==
    [][/\ DllLinksAgree(playlists["dll"])
       /\ DllLinksAgree(playlists'["dll"])
       /\ \A data \in DllData :
            DllAppend(data)
            => DLL_to_list(playlists'["dll"]) = Append(DLL_to_list(playlists["dll"]), data)
       /\ \A S \in SUBSET DllData :
            DllRemove(S)
            => LET old == DLL_to_list(playlists["dll"])
                   hit == {i \in 1..Len(old) : old[i] \in S}
               IN DLL_to_list(playlists'["dll"]) =
                     IF hit = {} THEN old
                     ELSE SeqRemoveAt(old, CHOOSE i \in hit : \A j \in hit : i <= j)]_vars

\* remove has unlinked the first of several matching entries, from the middle
\* or the end of the list as well as from its head: two entries are left at least
C23_Witness ==
    /\ last.op = "remove"
    /\ last.via = "the first of several"
    /\ Len(DLL_to_list(playlists["dll"])) >= 2
    /\ DLL_to_list(playlists["dll"])[1] # DLL_to_list(playlists["dll"])[2]

-----------------------------------------------------------------------------
(* C24 *)

\* the songs a walk is answered with by the playlist step: get_next_song is
\* called with the current id, the id of each song returned is the next
\* current id, and the walk ends when the playlist step has no answer or
\* after fuel answers.  The playlist step changes no state.
RECURSIVE WalkAnswers(_, _, _)
WalkAnswers(name, current, fuel) ==
    IF fuel = 0 \/ NextStep(current, name) # "playlist" THEN <<>>
    ELSE LET nxt == Playlist_next_of(playlists[name], heap, current)
         IN <<nxt>> \o WalkAnswers(name, heap[nxt].song_id, fuel - 1)

\* C24: for every playlist that is not empty, the walk that starts at the id
\* of the first entry is answered with the entries after the first, in list
\* order, and with nothing more: the playlist step has given at most
\* len(playlist) - 1 answers when the walk leaves it.
C24_WalkReachesEnd ==
    \A name \in DOMAIN playlists :
        LET list == Playlist_to_list(playlists[name]) IN
        list # <<>>
        => WalkAnswers(name, heap[list[1]].song_id, Len(list)) = Tail(list)

-----------------------------------------------------------------------------
(* C25 *)

\* C25: a get_next_song answered by the playlist step (the playlist has a
\* successor for the given id) leaves the queue and the history as they are; a
\* get_previous_song answered by the playlist step (the playlist has a
\* predecessor) leaves the history as it is; and neither call changes the
\* master list, the id index, the genre index, the tree, the graph or a playlist.
C25_SequencingFrame ==
    [][\A id \in CurrentIds, name \in CurrentNames :
         /\ GetNextSong(id, name)
            => /\ UNCHANGED <<library, song_index, genres, bst, graph, playlists>>
               /\ PlaylistSuccessor(id, name) # NoRef
                  => queue' = queue /\ history' = history
         /\ GetPreviousSong(id, name)
            => /\ UNCHANGED <<library, song_index, genres, bst, graph, playlists>>
               /\ PlaylistPredecessor(id, name) # NoRef => history' = history]_vars

\* get_previous_song has answered from the playlist while the history held a
\* song it could have popped
C25_Witness ==
    /\ last.op = "get_previous_song"
    /\ last.via = "playlist"
    /\ history # <<>>

-----------------------------------------------------------------------------
(* C26 *)

\* C26: whenever a current id is given (not None, not 0) and the playlist has
\* no predecessor to offer, the song get_previous_song returns from the
\* history, if it returns one, has an id different from the current id.
C26_NeverTheCurrentTrack ==
    [][\A id \in CurrentIds, name \in CurrentNames :
         (/\ TruthyId(id)
          /\ PlaylistPredecessor(id, name) = NoRef
          /\ GetPreviousSong(id, name))
         => \/ last'.ret = NoRef
            \/ heap[last'.ret].song_id # id]_vars

====
